---- MODULE Spec2Model ----
(***************************************************************************)
(* Model of the expiring key/value cache of the disaster-response server:  *)
(* CacheManager.get / set / delete over the `cache` table                  *)
(* (key text PRIMARY KEY, value jsonb NOT NULL, expires_at timestamptz).   *)
(* Every method is an async function: it runs atomically between awaits,   *)
(* and each query is one atomic statement at the store.  Time is in        *)
(* milliseconds, as Date.now() is.  A query that fails (error answer or    *)
(* exception) leaves the table as it was.                                  *)
(*                                                                         *)
(* Spec     one caller, one call at a time, every argument and outcome.    *)
(* SpecConc two callers whose calls on one key interleave at the awaits.   *)
(* SpecReq  two requests of the routes that memoize an external lookup.    *)
(* SpecTtl  one such request and a later reader, at the TTL instants.      *)
(* SpecBus  sockets joining rooms and the routes that emit to a room.      *)
(* SpecDis  three requests of the disasters routes (POST, PUT, DELETE).    *)
(***************************************************************************)
EXTENDS Integers, FiniteSets, Sequences, TLC

\* ------------------------------------------------------------------ bounds
\* The clock stops advancing once it has reached MaxNow milliseconds.
MaxNow == 121000

\* Amounts of time that may pass between two steps: one minute, 61 seconds.
TickSteps == {60000, 61000}

\* Requests (callers of the cache); SeqProcs are those of the sequential
\* specification, in which one call completes before the next starts.
Procs == {"p1", "p2"}
SeqProcs == {"p1"}

\* Keys callers pass (a key is an opaque string; "" is the empty key).
Keys == {"", "k"}

\* ---------------------------------------------------------- JavaScript values
JsString(s) == [t |-> "string", s |-> s]
JsNumber(s) == [t |-> "number", s |-> s]
JsNull == [t |-> "null", s |-> "null"]
JsTrue == [t |-> "boolean", s |-> "true"]
JsFalse == [t |-> "boolean", s |-> "false"]

\* JSON values: strings, numbers, booleans, null.
JsonValues ==
    {JsString("v"), JsString("1"), JsNumber("1"), JsTrue, JsFalse, JsNull,
     JsString(""),
     [t |-> "object", s |-> "{\"source\":\"google_maps\"}"],
     [t |-> "object", s |-> "{\"source\":\"openstreetmap\"}"],
     [t |-> "object", s |-> "{\"updates\":[]}"],
     [t |-> "object", s |-> "{\"reports\":[]}"],
     [t |-> "object", s |-> "{\"verified_by\":\"gemini-ai\"}"]}

\* Mutant: strings are sent without their quotes.
JSONStringify_unquoted(v) == v.s

\* The request body supabase-js sends: JSON.stringify of the value.
JSONStringify(v) ==
    IF v.t = "string" THEN "\"" \o v.s \o "\"" ELSE v.s

\* The response body parsed back into a JavaScript value.
JSONParse(text) == CHOOSE v \in JsonValues : JSONStringify(v) = text

\* ------------------------------------------------------------ the cache table
\* SQL NULL in the value column of a row to be written.
SqlNull == "NULL"

\* A JSON null in the request body becomes SQL NULL in the jsonb column.
ToColumn(v) == IF v.t = "null" THEN SqlNull ELSE JSONStringify(v)

\* value jsonb NOT NULL
NotNullOk(row) == row.value # SqlNull

RowsOf(rows, key) == {r \in rows : r.key = key}

\* Outcomes of one query: the store answers, answers with an error object,
\* or the client call throws (connectivity).
Outcomes == {"ok", "error", "throw"}

\* Mutant: a plain insert, the row is added next to the one of its key.
UpsertRows_append(rows, row) == rows \cup {row}

\* Mutant: on conflict do nothing, the first row of a key stays.
UpsertRows_keepFirst(rows, row) ==
    IF RowsOf(rows, row.key) # {} THEN rows ELSE rows \cup {row}

\* Mutant: on conflict only the value is updated, the old expiry stays.
UpsertRows_valueOnly(rows, row) ==
    IF RowsOf(rows, row.key) # {}
    THEN {[r EXCEPT !.value = row.value] : r \in RowsOf(rows, row.key)}
            \cup (rows \ RowsOf(rows, row.key))
    ELSE rows \cup {row}

\* INSERT ... ON CONFLICT (key) DO UPDATE: the row replaces the one of its key.
UpsertRows(rows, row) == (rows \ RowsOf(rows, row.key)) \cup {row}

\* Mutant: the delete has no filter, every row goes.
DeleteRows_all(rows, key) == {}

\* Mutant: the delete matches no row.
DeleteRows_none(rows, key) == rows

\* DELETE FROM cache WHERE key = $1
DeleteRows(rows, key) == rows \ RowsOf(rows, key)

NoData == [present |-> FALSE, value |-> JsNull, expires_at |-> 0]

\* Mutant: when no row matches, a default row is answered instead of an error.
SelectSingle_default(rows, key, outcome) ==
    IF outcome = "throw" THEN [q |-> outcome, error |-> FALSE, data |-> NoData]
    ELSE IF outcome = "error" \/ Cardinality(RowsOf(rows, key)) > 1
    THEN [q |-> outcome, error |-> TRUE, data |-> NoData]
    ELSE IF RowsOf(rows, key) = {}
    THEN [q |-> outcome, error |-> FALSE,
          data |-> [present |-> TRUE, value |-> JsString("v"), expires_at |-> 0]]
    ELSE LET r == CHOOSE x \in RowsOf(rows, key) : TRUE
         IN [q |-> outcome, error |-> FALSE,
             data |-> [present |-> TRUE, value |-> JSONParse(r.value),
                       expires_at |-> r.expires_at]]

\* .select('value, expires_at').eq('key', key).single(): exactly one row, or
\* an error and no data.  q is what became of the query itself.
SelectSingle(rows, key, outcome) ==
    IF outcome = "throw" THEN [q |-> outcome, error |-> FALSE, data |-> NoData]
    ELSE IF outcome = "error" \/ Cardinality(RowsOf(rows, key)) # 1
    THEN [q |-> outcome, error |-> TRUE, data |-> NoData]
    ELSE LET r == CHOOSE x \in RowsOf(rows, key) : TRUE
         IN [q |-> outcome, error |-> FALSE,
             data |-> [present |-> TRUE, value |-> JSONParse(r.value),
                       expires_at |-> r.expires_at]]

\* ------------------------------------------------------------ CacheManager
DefaultTtlMinutes == 60

\* How a call ended: the statement it ended at (source line) and the value.
Return(v, line) == [kind |-> "return", val |-> v, line |-> line]
Throw(line) == [kind |-> "throw", val |-> JsNull, line |-> line]
Pending == [kind |-> "pending", val |-> JsNull, line |-> 0]

\* Mutant: an entry expires at its expires_at, not after it.
Expired_orEqual(expires_at, t) == expires_at <= t

\* Mutant: the comparison is reversed.
Expired_reversed(expires_at, t) == expires_at > t

\* new Date(data.expires_at) < new Date()
Expired(expires_at, t) == expires_at < t

\* Mutant: the TTL is taken as hours.
ExpiresAt_hours(t, ttlMinutes) == t + ttlMinutes * 60 * 60 * 1000

\* new Date(Date.now() + ttlMinutes * 60 * 1000)
ExpiresAt(t, ttlMinutes) == t + ttlMinutes * 60 * 1000

\* get, after the select: the line the method goes to.
\*   66  catch: return null         55  error or no data: return null
\*   59  expired: await this.delete(key), then return null (line 60)
\*   63  return data.value
GetDecision(r, t) ==
    IF r.q = "throw" THEN 66
    ELSE IF r.error \/ ~r.data.present THEN 55
    ELSE IF Expired(r.data.expires_at, t) THEN 59
    ELSE 63

\* Mutant: no catch around the select, the exception leaves get.
GetReturn_nocatch(line, r) ==
    IF line = 59 THEN Pending
    ELSE IF line = 63 THEN Return(r.data.value, 63)
    ELSE IF line = 66 THEN Throw(49)
    ELSE Return(JsNull, line)

\* What get returns at that line.
GetReturn(line, r) ==
    IF line = 59 THEN Pending
    ELSE IF line = 63 THEN Return(r.data.value, 63)
    ELSE Return(JsNull, line)

\* Mutant: the failure of the eviction leaves get as an exception.
EvictReturn_propagate(o) ==
    IF o = "ok" THEN Return(JsNull, 60) ELSE Throw(59)

\* get, lines 59-60: the result of this.delete(key) is dropped, return null.
EvictReturn(o) == Return(JsNull, 60)

\* Mutant: no catch, the error thrown at line 82 leaves set.
SetResult_nocatch(o) ==
    IF o = "ok" THEN Return(JsTrue, 83) ELSE Throw(82)

\* set: if (error) throw error; return true;  catch: return false
SetResult(o) ==
    IF o = "ok" THEN Return(JsTrue, 83) ELSE Return(JsFalse, 86)

\* delete: if (error) throw error; return true;  catch: return false
DeleteResult(o) ==
    IF o = "ok" THEN Return(JsTrue, 98) ELSE Return(JsFalse, 101)

\* The row set() sends to the store.
SetRow(key, value, expiresAt) ==
    [key |-> key, value |-> ToColumn(value), expires_at |-> expiresAt]

\* What the store does with the upsert: a row violating NOT NULL is refused.
UpsertOutcome(row, outcome) ==
    IF outcome = "ok" /\ ~NotNullOk(row) THEN "error" ELSE outcome

\* Argument lists of the set calls: <<key, value, ttlMinutes>>, or <<key, value>>
\* when ttlMinutes is left to its default.
SetArgs == {
    <<"k", JsString("1"), 1>>,
    <<"k", JsNumber("1")>>,
    <<"k", JsString("1"), 0>>,
    <<"k", JsNull, 1>>,
    <<"", JsString("1"), 1>> }

\* argc is the number of arguments the call was made with.
NoCall == [op |-> "none", argc |-> 0, key |-> "", value |-> JsNull, ttlMinutes |-> 0, at |-> 0, expiresAt |-> 0]
NoRes == [q |-> "ok", error |-> FALSE, data |-> NoData]
NoPrev == [call |-> NoCall, ret |-> Pending]

\* ---------------------------------------------------------- route handlers
JsObject(json) == [t |-> "object", s |-> json]

\* Results of the external services.
Location == JsString("v")
NoLocation == JsString("NONE")
EmptyText == JsString("")
GoogleCoords == JsObject("{\"source\":\"google_maps\"}")
NominatimCoords == JsObject("{\"source\":\"openstreetmap\"}")
Updates == JsObject("{\"updates\":[]}")
Reports == JsObject("{\"reports\":[]}")
Verification == JsObject("{\"verified_by\":\"gemini-ai\"}")
Fallback == JsObject("{\"verified_by\":\"fallback\"}")

NoRequest == [route |-> "none", arg |-> JsNull, fromText |-> FALSE,
              stage |-> "none", loc |-> JsNull, ext |-> JsNull]
NoResponse == [status |-> 0, body |-> JsNull, location_name |-> JsNull]

\* ------------------------------------------------------------------ sockets
\* The sockets that may connect, and the disaster ids they may name.
Sockets == {"s1", "s2"}
DisasterIds == {"d", "e"}

\* `disaster_${disasterId}`
Room(d) == "disaster_" \o d

\* The target of io.emit: every connected socket.
Everyone == "*"

\* A row of the disasters table; audit_trail is the jsonb array.
NoRow == [id |-> "", owner_id |-> "", title |-> "", audit_trail |-> <<>>]

\* An emitted event: its name, the room it goes to, and its payload.
Event(name, room, action, disaster_id, row) ==
    [name |-> name, room |-> room, action |-> action,
     disaster_id |-> disaster_id, disaster |-> row]

\* The client requests of the disasters and resources routes.
Clients == {"c1", "c2", "c3"}
\* The answer of a query that has not been made.
NoAnswer == [q |-> "none", code |-> "", row |-> NoRow]

NoClientRequest == [route |-> "none", user |-> "", id |-> "", title |-> "",
                    existing |-> NoRow, ans |-> NoAnswer]
NoClientResponse == [status |-> 0, body |-> NoRow]

VARIABLES
    cache,    \* rows of the cache table
    now,      \* the clock, in ms
    pc,       \* per request: where its cache call stands
    call,     \* per request: the call in progress or last completed
    res,      \* per request: { data, error } of get's select
    outcome,  \* per request: outcome of the call's last query
    ret,      \* per request: how the call ended
    prev,     \* per request: the call completed before the current one
    rpc,      \* per request: where its route handler stands
    rq,       \* per request: the handler's inputs and locals
    trace,    \* per request: what its handler has done, as <<stage, event>>
    resp,     \* per request: the HTTP response sent
    emitted,  \* the events the server has emitted, in order
    conn,     \* per socket: whether it is connected
    joined,   \* per socket: the rooms it is in
    received, \* per socket: the events delivered to it
    disasters,\* rows of the disasters table
    nextId,   \* the ids the disasters table has handed out so far
    dpc,      \* per client request: where its handler stands
    dq,       \* per client request: the request and the handler's locals
    dresp     \* per client request: the HTTP response sent

cacheVars == <<cache, now, pc, call, res, outcome, ret, prev>>
reqVars == <<rpc, rq, trace, resp>>
busVars == <<emitted, conn, joined, received>>
disVars == <<disasters, nextId, dpc, dq, dresp>>
vars == <<cache, now, pc, call, res, outcome, ret, prev, rpc, rq, trace, resp,
          emitted, conn, joined, received, disasters, nextId, dpc, dq, dresp>>

Init ==
    /\ cache = {}
    /\ now = 0
    /\ pc = [p \in Procs |-> "idle"]
    /\ call = [p \in Procs |-> NoCall]
    /\ res = [p \in Procs |-> NoRes]
    /\ outcome = [p \in Procs |-> "ok"]
    /\ ret = [p \in Procs |-> Pending]
    /\ prev = [p \in Procs |-> NoPrev]
    /\ rpc = [p \in Procs |-> "new"]
    /\ rq = [p \in Procs |-> NoRequest]
    /\ trace = [p \in Procs |-> {}]
    /\ resp = [p \in Procs |-> NoResponse]
    /\ emitted = <<>>
    /\ conn = [s \in Sockets |-> FALSE]
    /\ joined = [s \in Sockets |-> {}]
    /\ received = [s \in Sockets |-> {}]
    /\ disasters = {}
    /\ nextId = 0
    /\ dpc = [c \in Clients |-> "new"]
    /\ dq = [c \in Clients |-> NoClientRequest]
    /\ dresp = [c \in Clients |-> NoClientResponse]

\* Mutant: the event goes to every connected socket.
Recipients_broadcast(ev) == {s \in Sockets : conn[s]}

\* The sockets an event is delivered to: io.emit reaches every connected
\* socket, io.to(room).emit those in the room.
Recipients(ev) ==
    {s \in Sockets : conn[s] /\ (ev.room = Everyone \/ ev.room \in joined[s])}

\* The server emits an event: it is delivered to its recipients.
Emit(ev) ==
    /\ emitted' = Append(emitted, ev)
    /\ received' = [s \in Sockets |->
                      IF s \in Recipients(ev) THEN received[s] \cup {ev}
                      ELSE received[s]]

\* Mutant: as time passes, a sweeper removes the rows that have expired.
Tick_sweep(d) ==
    /\ now + d <= MaxNow
    /\ now' = now + d
    /\ cache' = {r \in cache : ~(r.expires_at < now + d)}
    /\ UNCHANGED <<pc, call, res, outcome, ret, prev>>
    /\ UNCHANGED <<reqVars, busVars, disVars>>

\* Time passes.
Tick(d) ==
    /\ now + d <= MaxNow
    /\ now' = now + d
    /\ UNCHANGED <<cache, pc, call, res, outcome, ret, prev>>
    /\ UNCHANGED <<reqVars, busVars, disVars>>

\* A request starts a new call: the one it completed becomes its previous call.
Begin(p, c) ==
    /\ pc[p] = "idle"
    /\ prev' = [prev EXCEPT ![p] = [call |-> call[p], ret |-> ret[p]]]
    /\ call' = [call EXCEPT ![p] = c]

\* get(key) up to the answer of the select.
GetSelectStep(p, key, o) ==
    /\ Begin(p, [NoCall EXCEPT !.op = "get", !.argc = 1, !.key = key, !.at = now])
    /\ res' = [res EXCEPT ![p] = SelectSingle(cache, key, o)]
    /\ outcome' = [outcome EXCEPT ![p] = o]
    /\ ret' = [ret EXCEPT ![p] = Pending]
    /\ pc' = [pc EXCEPT ![p] = "get_check"]
    /\ UNCHANGED <<cache, now>>

\* get(key) called on its own.
GetSelect(p, key, o) == GetSelectStep(p, key, o) /\ UNCHANGED <<reqVars, busVars, disVars>>

\* Mutant: a get that returns the value gives the entry a new hour to live.
GetCheck_sliding(p) ==
    /\ pc[p] = "get_check"
    /\ LET line == GetDecision(res[p], now) IN
         /\ pc' = [pc EXCEPT ![p] = IF line = 59 THEN "get_delete" ELSE "idle"]
         /\ ret' = [ret EXCEPT ![p] = GetReturn(line, res[p])]
         /\ cache' = IF line = 63
                     THEN {IF r.key = call[p].key
                           THEN [r EXCEPT !.expires_at = ExpiresAt(now, DefaultTtlMinutes)]
                           ELSE r : r \in cache}
                     ELSE cache
    /\ UNCHANGED <<now, call, res, outcome, prev>>
    /\ UNCHANGED <<reqVars, busVars, disVars>>

\* get, continuation after the select: error / expiry checks.
GetCheck(p) ==
    /\ pc[p] = "get_check"
    /\ LET line == GetDecision(res[p], now) IN
         /\ pc' = [pc EXCEPT ![p] = IF line = 59 THEN "get_delete" ELSE "idle"]
         /\ ret' = [ret EXCEPT ![p] = GetReturn(line, res[p])]
    /\ UNCHANGED <<cache, now, call, res, outcome, prev>>
    /\ UNCHANGED <<reqVars, busVars, disVars>>

\* get, expired entry: await this.delete(key); return null.
GetDelete(p, o) ==
    /\ pc[p] = "get_delete"
    /\ cache' = IF o = "ok" THEN DeleteRows(cache, call[p].key) ELSE cache
    /\ outcome' = [outcome EXCEPT ![p] = o]
    /\ ret' = [ret EXCEPT ![p] = EvictReturn(o)]
    /\ pc' = [pc EXCEPT ![p] = "idle"]
    /\ UNCHANGED <<now, call, res, prev>>
    /\ UNCHANGED <<reqVars, busVars, disVars>>

\* set(key, value, ttlMinutes = 60) up to the await of the upsert.
SetCallStep(p, args) ==
    /\ LET key == args[1]
           value == args[2]
           ttlMinutes == IF Len(args) >= 3 THEN args[3] ELSE DefaultTtlMinutes IN
         Begin(p, [op |-> "set", argc |-> Len(args), key |-> key, value |-> value,
                   ttlMinutes |-> ttlMinutes, at |-> now,
                   expiresAt |-> ExpiresAt(now, ttlMinutes)])
    /\ res' = [res EXCEPT ![p] = NoRes]
    /\ outcome' = [outcome EXCEPT ![p] = "ok"]
    /\ ret' = [ret EXCEPT ![p] = Pending]
    /\ pc' = [pc EXCEPT ![p] = "set_upsert"]
    /\ UNCHANGED <<cache, now>>

\* set(key, value, ttlMinutes) called on its own.
SetCall(p, args) == SetCallStep(p, args) /\ UNCHANGED <<reqVars, busVars, disVars>>

\* set, the store applies the upsert and the method returns.
SetUpsert(p, o) ==
    /\ pc[p] = "set_upsert"
    /\ LET row == SetRow(call[p].key, call[p].value, call[p].expiresAt)
           eff == UpsertOutcome(row, o) IN
         /\ cache' = IF eff = "ok" THEN UpsertRows(cache, row) ELSE cache
         /\ outcome' = [outcome EXCEPT ![p] = eff]
         /\ ret' = [ret EXCEPT ![p] = SetResult(eff)]
    /\ pc' = [pc EXCEPT ![p] = "idle"]
    /\ UNCHANGED <<now, call, res, prev>>
    /\ UNCHANGED <<reqVars, busVars, disVars>>

\* delete(key).
Delete(p, key, o) ==
    /\ Begin(p, [NoCall EXCEPT !.op = "delete", !.argc = 1, !.key = key, !.at = now])
    /\ res' = [res EXCEPT ![p] = NoRes]
    /\ cache' = IF o = "ok" THEN DeleteRows(cache, key) ELSE cache
    /\ outcome' = [outcome EXCEPT ![p] = o]
    /\ ret' = [ret EXCEPT ![p] = DeleteResult(o)]
    /\ UNCHANGED <<now, pc>>
    /\ UNCHANGED <<reqVars, busVars, disVars>>

\* One request at a time, every input.
Next ==
    \/ \E d \in TickSteps : Tick(d)
    \/ \E p \in SeqProcs, key \in Keys, o \in Outcomes : GetSelect(p, key, o)
    \/ \E p \in SeqProcs : GetCheck(p)
    \/ \E p \in SeqProcs, o \in Outcomes : GetDelete(p, o)
    \/ \E p \in SeqProcs, a \in SetArgs : SetCall(p, a)
    \/ \E p \in SeqProcs, o \in Outcomes : SetUpsert(p, o)
    \/ \E p \in SeqProcs, key \in Keys, o \in Outcomes : Delete(p, key, o)

Spec == Init /\ [][Next]_vars

\* Arguments and outcomes of the concurrent specification: two requests
\* working on the same key at the same time.
ConcKeys == {"k"}
ConcSetArgs == {<<"k", JsString("1"), 1>>, <<"k", JsNumber("1")>>}
ConcOutcomes == {"ok", "error"}
ConcTickSteps == {61000}

NextConc ==
    \/ \E d \in ConcTickSteps : Tick(d)
    \/ \E p \in Procs, key \in ConcKeys, o \in ConcOutcomes : GetSelect(p, key, o)
    \/ \E p \in Procs : GetCheck(p)
    \/ \E p \in Procs, o \in ConcOutcomes : GetDelete(p, o)
    \/ \E p \in Procs, a \in ConcSetArgs : SetCall(p, a)
    \/ \E p \in Procs, o \in ConcOutcomes : SetUpsert(p, o)
    \/ \E p \in Procs, key \in ConcKeys, o \in ConcOutcomes : Delete(p, key, o)

SpecConc == Init /\ [][NextConc]_vars

\* -------------------------------------------------------- request handlers
\* Largest time of the request specification, and the waits between steps.
MaxReqNow == 960000
ReqTickSteps == {960000}

\* Buffer.from(s).toString('base64')
Base64(s) ==
    CASE s = "" -> ""
      [] s = "t" -> "dA=="
      [] s = "u" -> "dQ=="
      [] s = "v" -> "dg=="

\* JavaScript truthiness, as tested by if (x) and !x.
Truthy(v) ==
    ~ \/ v.t = "null"
      \/ v = JsFalse
      \/ v.t = "string" /\ v.s = ""
      \/ v.t = "number" /\ v.s = "0"

\* The request bodies and parameters: arg is the text, location name,
\* disaster id or image URL; JsNull when the body carries none.
Requests == {
    [route |-> "geocoding", arg |-> JsString("t"), fromText |-> TRUE],
    [route |-> "geocoding", arg |-> JsString("v"), fromText |-> FALSE],
    [route |-> "geocoding", arg |-> JsNull, fromText |-> FALSE],
    [route |-> "official", arg |-> JsString("d"), fromText |-> FALSE],
    [route |-> "social", arg |-> JsString("d"), fromText |-> FALSE],
    [route |-> "verify", arg |-> JsString("u"), fromText |-> FALSE],
    [route |-> "verify", arg |-> JsNull, fromText |-> FALSE] }

\* The cached lookup a handler starts with.
FirstStage(route, fromText) ==
    IF route = "geocoding" THEN (IF fromText THEN "extract" ELSE "geocode")
    ELSE route

\* The cache key of the handler's current lookup.
CacheKey(q) ==
    CASE q.stage = "extract" -> "location_extract_" \o Base64(q.arg.s)
      [] q.stage = "geocode" -> "geocode_" \o Base64(q.loc.s)
      [] q.stage = "official" -> "official_updates_" \o q.arg.s \o "_all"
      [] q.stage = "social" -> "social_media_" \o q.arg.s \o "_all"
      [] q.stage = "verify" -> "image_verify_" \o Base64(q.arg.s)

\* Mutant: every caller passes the default of set.
TtlMinutes_default(stage) == DefaultTtlMinutes

\* The ttlMinutes each caller passes to set.
TtlMinutes(stage) ==
    CASE stage = "extract" -> 60
      [] stage = "geocode" -> 1440
      [] stage = "official" -> 30
      [] stage = "social" -> 15
      [] stage = "verify" -> 1440

\* geocodeLocation: Google Maps, else Nominatim, else Mapbox.
FirstCoordinates(g, n, m) ==
    IF Truthy(g) THEN g ELSE IF Truthy(n) THEN n ELSE m

\* What each geocoding provider can answer; null when it finds nothing or
\* fails.  MAPBOX_ACCESS_TOKEN is not set, so Mapbox is never asked.
GoogleAnswers == {JsNull, GoogleCoords}
NominatimAnswers == {JsNull, NominatimCoords}
MapboxAnswers == {JsNull}

\* What the external service of a lookup can answer.
ExternalResults(stage) ==
    CASE stage = "extract" ->
            {[threw |-> FALSE, val |-> Location],
             [threw |-> FALSE, val |-> NoLocation],
             [threw |-> FALSE, val |-> EmptyText],
             [threw |-> TRUE, val |-> JsNull]}
      [] stage = "geocode" ->
            {[threw |-> FALSE, val |-> FirstCoordinates(g, n, m)] :
                g \in GoogleAnswers, n \in NominatimAnswers, m \in MapboxAnswers}
      [] stage = "official" -> {[threw |-> FALSE, val |-> Updates]}
      [] stage = "social" -> {[threw |-> FALSE, val |-> Reports]}
      [] stage = "verify" ->
            {[threw |-> FALSE, val |-> Verification],
             [threw |-> TRUE, val |-> JsNull]}

\* Mutant: the lookup is never taken for a hit.
CacheHit_never(cached) == FALSE

\* Mutant: whatever get returns is taken for a hit.
CacheHit_always(cached) == TRUE

\* if (cachedResult) / if (cachedData) / if (!cachedResult)
CacheHit(cached) == Truthy(cached)

\* Mutant: every external outcome is written to the cache.
ShouldCache_always(stage, e) == TRUE

\* Whether the handler goes on to CacheManager.set with the external result.
ShouldCache(stage, e) ==
    CASE stage = "extract" -> ~e.threw /\ e.val # NoLocation
      [] stage = "geocode" -> Truthy(e.val)
      [] stage = "official" -> TRUE
      [] stage = "social" -> TRUE
      [] stage = "verify" -> ~e.threw

Respond(status, body, location_name) ==
    [status |-> status, body |-> body, location_name |-> location_name]

\* res.json(...) with the value of the lookup.
OkResponse(q, value) ==
    IF q.stage = "geocode" THEN Respond(200, value, q.loc)
    ELSE Respond(200, value, JsNull)

\* Mutant: the response depends on what set returned.
FreshResponse_needsSet(q, setReturned) ==
    IF setReturned = JsTrue THEN OkResponse(q, q.ext)
    ELSE Respond(500, JsNull, JsNull)

\* The response after await CacheManager.set(...): its result is not read.
FreshResponse(q, setReturned) == OkResponse(q, q.ext)

\* The response when the external result is not cached.
FailResponse(stage, e) ==
    CASE stage = "extract" ->
            IF e.threw THEN Respond(500, JsNull, JsNull)
            ELSE Respond(400, JsNull, JsNull)
      [] stage = "geocode" -> Respond(404, JsNull, JsNull)
      [] stage = "verify" -> Respond(200, Fallback, JsNull)
      [] OTHER -> Respond(500, JsNull, JsNull)

\* What the handler learns from the lookup, from the select's answer and from
\* what get returned.
LookupEvents(stage, r, cached) ==
    (IF r.q # "ok" THEN {<<stage, "lookup_failed">>} ELSE {})
    \cup (IF r.data.present /\ Truthy(r.data.value) THEN {<<stage, "found">>} ELSE {})
    \cup {<<stage, IF CacheHit(cached) THEN "hit" ELSE "external">>}

\* What the handler learns from the external service: whether it answered
\* with a usable result (truthy, and not the "NONE" of the extraction).
ExternalEvents(stage, e) ==
    IF ~e.threw /\ Truthy(e.val) /\ e.val # NoLocation
    THEN {<<stage, "succeeded">>} ELSE {}

\* Time passes between the steps of the handlers.
ReqTick(d) ==
    /\ now + d <= MaxReqNow
    /\ now' = now + d
    /\ UNCHANGED <<cache, pc, call, res, outcome, ret, prev>>
    /\ UNCHANGED <<reqVars, busVars, disVars>>

\* A request arrives: validation of the body, then the first lookup.
NewRequest(r, input) ==
    /\ rpc[r] = "new"
    /\ IF input.arg = JsNull
       THEN /\ resp' = [resp EXCEPT ![r] = Respond(400, JsNull, JsNull)]
            /\ rpc' = [rpc EXCEPT ![r] = "done"]
       ELSE /\ rpc' = [rpc EXCEPT ![r] = "get"]
            /\ UNCHANGED resp
    /\ rq' = [rq EXCEPT ![r] =
                [route |-> input.route, arg |-> input.arg,
                 fromText |-> input.fromText,
                 stage |-> FirstStage(input.route, input.fromText),
                 loc |-> IF input.route = "geocoding" /\ ~input.fromText
                         THEN input.arg ELSE JsNull,
                 ext |-> JsNull]]
    /\ UNCHANGED trace
    /\ UNCHANGED <<cacheVars, busVars, disVars>>

\* The handler calls CacheManager.get(cacheKey).
ReqGet(r, o) ==
    /\ rpc[r] = "get"
    /\ GetSelectStep(r, CacheKey(rq[r]), o)
    /\ rpc' = [rpc EXCEPT ![r] = "lookup"]
    /\ UNCHANGED <<rq, trace, resp>>
    /\ UNCHANGED <<busVars, disVars>>

\* get has returned: a hit answers (or feeds the geocoding), a miss goes to
\* the external service.
ReqAfterGet(r) ==
    /\ rpc[r] = "lookup"
    /\ pc[r] = "idle"
    /\ LET cached == ret[r].val
           stage == rq[r].stage IN
         /\ trace' = [trace EXCEPT ![r] = @ \cup LookupEvents(stage, res[r], cached)]
         /\ IF ~CacheHit(cached)
            THEN /\ rpc' = [rpc EXCEPT ![r] = "external"]
                 /\ UNCHANGED <<rq, resp>>
            ELSE IF stage = "extract"
            THEN /\ rq' = [rq EXCEPT ![r].loc = cached, ![r].stage = "geocode"]
                 /\ rpc' = [rpc EXCEPT ![r] = "get"]
                 /\ UNCHANGED resp
            ELSE /\ resp' = [resp EXCEPT ![r] = OkResponse(rq[r], cached)]
                 /\ rpc' = [rpc EXCEPT ![r] = "done"]
                 /\ UNCHANGED rq
    /\ UNCHANGED <<cacheVars, busVars, disVars>>

\* The external service answers: the handler caches the result, or responds
\* without caching.
ReqExternal(r, e) ==
    /\ rpc[r] = "external"
    /\ e \in ExternalResults(rq[r].stage)
    /\ LET stage == rq[r].stage
           q == [rq[r] EXCEPT !.ext = e.val,
                              !.loc = IF stage = "extract" THEN e.val ELSE @] IN
         /\ rq' = [rq EXCEPT ![r] = q]
         /\ IF ShouldCache(stage, e)
            THEN /\ SetCallStep(r, <<CacheKey(rq[r]), e.val, TtlMinutes(stage)>>)
                 /\ rpc' = [rpc EXCEPT ![r] = "store"]
                 /\ UNCHANGED resp
            ELSE /\ resp' = [resp EXCEPT ![r] = FailResponse(stage, e)]
                 /\ rpc' = [rpc EXCEPT ![r] = "done"]
                 /\ UNCHANGED cacheVars
         /\ trace' = [trace EXCEPT ![r] = @ \cup ExternalEvents(stage, e)]
    /\ UNCHANGED <<busVars, disVars>>

\* set has returned: the handler goes on with the fresh result.
ReqAfterSet(r) ==
    /\ rpc[r] = "store"
    /\ pc[r] = "idle"
    /\ LET stage == rq[r].stage IN
         /\ trace' = [trace EXCEPT ![r] = @ \cup
                        {<<stage, IF ret[r].val = JsTrue THEN "stored"
                                  ELSE "store_failed">>}]
         /\ IF stage = "extract"
            THEN /\ rq' = [rq EXCEPT ![r].stage = "geocode"]
                 /\ rpc' = [rpc EXCEPT ![r] = "get"]
                 /\ UNCHANGED resp
            ELSE /\ resp' = [resp EXCEPT ![r] = FreshResponse(rq[r], ret[r].val)]
                 /\ rpc' = [rpc EXCEPT ![r] = "done"]
                 /\ UNCHANGED rq
         /\ IF stage = "social"
            THEN Emit(Event("social_media_updated", Room(rq[r].arg.s), "",
                            rq[r].arg.s, NoRow))
            ELSE UNCHANGED <<emitted, received>>
    /\ UNCHANGED <<conn, joined>>
    /\ UNCHANGED <<cacheVars, disVars>>

ReqOutcomes == {"ok", "error"}

\* Two requests served at the same time, each by one of the caching routes.
NextReq ==
    \/ \E d \in ReqTickSteps : ReqTick(d)
    \/ \E r \in Procs, input \in Requests : NewRequest(r, input)
    \/ \E r \in Procs, o \in ReqOutcomes : ReqGet(r, o)
    \/ \E r \in Procs : GetCheck(r)
    \/ \E r \in Procs, o \in ReqOutcomes : GetDelete(r, o)
    \/ \E r \in Procs : ReqAfterGet(r)
    \/ \E r \in Procs, e \in UNION {ExternalResults(st) : st \in
            {"extract", "geocode", "official", "social", "verify"}} : ReqExternal(r, e)
    \/ \E r \in Procs, o \in ReqOutcomes : SetUpsert(r, o)
    \/ \E r \in Procs : ReqAfterSet(r)

SpecReq == Init /\ [][NextReq]_vars

\* ------------------------------------------------- entries over their TTL
\* Largest time of the TTL specification, and the instants at which the
\* stored entries are read again: each caller's TTL, and one millisecond later.
MaxTtlNow == 86400001
TtlInstants == {m * 60000 + d : m \in {15, 30, 60, 1440}, d \in {0, 1}}

\* Time advances to one of the instants.
TickTo(t) ==
    /\ t > now
    /\ t <= MaxTtlNow
    /\ now' = t
    /\ UNCHANGED <<cache, pc, call, res, outcome, ret, prev>>
    /\ UNCHANGED <<reqVars, busVars, disVars>>

\* The handler of w has completed a set and made no cache call since.
HasWritten(w) == pc[w] = "idle" /\ call[w].op = "set"

\* The entry written by w ages to instant t.
Age(w, t) == HasWritten(w) /\ TickTo(t)

\* A later reader calls get on the key the handler of w has just written.
GetWritten(p, w) ==
    /\ p # w
    /\ HasWritten(w)
    /\ GetSelect(p, call[w].key, "ok")

\* The store answers every query of this specification.
TtlOutcomes == {"ok"}

\* One request served by a caching route, and a reader of what it stored.
NextTtl ==
    \/ \E t \in TtlInstants : Age("p1", t)
    \/ \E input \in Requests : NewRequest("p1", input)
    \/ \E o \in TtlOutcomes : ReqGet("p1", o)
    \/ \E p \in Procs : GetCheck(p)
    \/ \E p \in Procs, o \in TtlOutcomes : GetDelete(p, o)
    \/ ReqAfterGet("p1")
    \/ \E e \in UNION {ExternalResults(st) : st \in
            {"extract", "geocode", "official", "social", "verify"}} : ReqExternal("p1", e)
    \/ \E o \in TtlOutcomes : SetUpsert("p1", o)
    \/ ReqAfterSet("p1")
    \/ GetWritten("p2", "p1")

SpecTtl == Init /\ [][NextTtl]_vars

\* ------------------------------------------------------ room notifications
ClientRespond(status, body) == [status |-> status, body |-> body]

\* io.on('connection')
Connect(s) ==
    /\ ~conn[s]
    /\ conn' = [conn EXCEPT ![s] = TRUE]
    /\ UNCHANGED <<emitted, joined, received>>
    /\ UNCHANGED <<cacheVars, reqVars, disVars>>

\* socket.on('join_disaster', disasterId): socket.join(`disaster_${disasterId}`)
JoinDisaster(s, d) ==
    /\ conn[s]
    /\ joined' = [joined EXCEPT ![s] = @ \cup {Room(d)}]
    /\ UNCHANGED <<emitted, conn, received>>
    /\ UNCHANGED <<cacheVars, reqVars, disVars>>

\* socket.on('disconnect'): the socket has left its rooms.
Disconnect(s) ==
    /\ conn[s]
    /\ conn' = [conn EXCEPT ![s] = FALSE]
    /\ joined' = [joined EXCEPT ![s] = {}]
    /\ UNCHANGED <<emitted, received>>
    /\ UNCHANGED <<cacheVars, reqVars, disVars>>

\* GET /:id/resources up to the await of the query.
ResourcesRequest(c, d) ==
    /\ dpc[c] = "new"
    /\ dq' = [dq EXCEPT ![c] = [NoClientRequest EXCEPT !.route = "resources", !.id = d]]
    /\ dpc' = [dpc EXCEPT ![c] = "query"]
    /\ UNCHANGED <<disasters, nextId, dresp>>
    /\ UNCHANGED <<cacheVars, reqVars, busVars>>

\* GET /:id/resources after the query: emit to the room and respond, or
\* next(error).
ResourcesAnswered(c, o) ==
    /\ dpc[c] = "query"
    /\ dq[c].route = "resources"
    /\ IF o = "ok"
       THEN /\ Emit(Event("resources_updated", Room(dq[c].id), "", dq[c].id, NoRow))
            /\ dresp' = [dresp EXCEPT ![c] = ClientRespond(200, NoRow)]
       ELSE /\ dresp' = [dresp EXCEPT ![c] = ClientRespond(500, NoRow)]
            /\ UNCHANGED <<emitted, received>>
    /\ dpc' = [dpc EXCEPT ![c] = "done"]
    /\ UNCHANGED <<disasters, nextId, dq>>
    /\ UNCHANGED <<conn, joined>>
    /\ UNCHANGED <<cacheVars, reqVars>>

\* The social-media requests, one per disaster.
BusRequests ==
    {[route |-> "social", arg |-> JsString(d), fromText |-> FALSE] : d \in DisasterIds}
BusOutcomes == {"ok", "error"}

\* Sockets joining and leaving while the two emitting routes are served.
NextBus ==
    \/ \E s \in Sockets : Connect(s)
    \/ \E s \in Sockets, d \in DisasterIds : JoinDisaster(s, d)
    \/ \E s \in Sockets : Disconnect(s)
    \/ \E d \in DisasterIds : ResourcesRequest("c1", d)
    \/ \E o \in BusOutcomes : ResourcesAnswered("c1", o)
    \/ \E input \in BusRequests : NewRequest("p1", input)
    \/ \E o \in BusOutcomes : ReqGet("p1", o)
    \/ GetCheck("p1")
    \/ ReqAfterGet("p1")
    \/ \E e \in ExternalResults("social") : ReqExternal("p1", e)
    \/ \E o \in BusOutcomes : SetUpsert("p1", o)
    \/ ReqAfterSet("p1")

SpecBus == Init /\ [][NextBus]_vars

\* ---------------------------------------------------------- disasters routes
\* The number of disasters the table may come to hold.
MaxDisasters == 1

\* The x-user-id headers of the requests; "" is a request without the header.
Headers == {"admin", "contributor", "viewer", ""}

\* authMiddleware: the mock user of the header, the contributor by default.
\* A mock user's id and role carry the same name.
AuthUser(header) ==
    IF header \in {"admin", "contributor", "viewer"} THEN header ELSE "contributor"

\* roleHierarchy[role] || 0
UserLevel(role) ==
    CASE role = "viewer" -> 1
      [] role = "contributor" -> 2
      [] role = "admin" -> 3
      [] OTHER -> 0

\* Mutant: the gate lets every role through.
RoleAllowed_open(role, requiredRole) == TRUE

\* requireRole(requiredRole): userLevel < requiredLevel answers 403.
RoleAllowed(role, requiredRole) == ~(UserLevel(role) < UserLevel(requiredRole))

\* The role each route is guarded with.
RequiredRole(route) == IF route = "delete" THEN "admin" ELSE "contributor"

\* gen_random_uuid(): the id of the n-th row inserted.
NewId(n) == IF n = 0 THEN "d" ELSE "e"

\* The requests: POST /disasters, PUT /disasters/:id, DELETE /disasters/:id.
\* A create with title "" has no title; an update sets title "u".
DisasterRequests ==
    {[route |-> "create", header |-> h, id |-> "", title |-> t] :
        h \in Headers, t \in {"", "t"}}
    \cup {[route |-> rt, header |-> h, id |-> i, title |-> "u"] :
        rt \in {"update", "delete"}, h \in Headers, i \in DisasterIds}

AuditEntry(action, user_id) == [action |-> action, user_id |-> user_id]

\* The rows with the given id.
DisastersOf(rows, id) == {row \in rows : row.id = id}

\* .eq('id', id).single() on the rows a statement returned: the row, or the
\* error PGRST116 when there is none.
Single(rows, o) ==
    IF o # "ok" THEN [q |-> o, code |-> "500", row |-> NoRow]
    ELSE IF rows = {} THEN [q |-> "error", code |-> "PGRST116", row |-> NoRow]
    ELSE [q |-> "ok", code |-> "", row |-> CHOOSE row \in rows : TRUE]

\* A request arrives: authMiddleware, requireRole, and the handler up to its
\* first await.
DisasterRequest(c, q) ==
    /\ dpc[c] = "new"
    /\ LET user == AuthUser(q.header) IN
         /\ dq' = [dq EXCEPT ![c] =
                     [route |-> q.route, user |-> user, id |-> q.id,
                      title |-> q.title, existing |-> NoRow, ans |-> NoAnswer]]
         /\ IF ~RoleAllowed(user, RequiredRole(q.route))
            THEN /\ dresp' = [dresp EXCEPT ![c] = ClientRespond(403, NoRow)]
                 /\ dpc' = [dpc EXCEPT ![c] = "done"]
            ELSE IF q.route = "create" /\ q.title = ""
            THEN /\ dresp' = [dresp EXCEPT ![c] = ClientRespond(400, NoRow)]
                 /\ dpc' = [dpc EXCEPT ![c] = "done"]
            ELSE /\ dpc' = [dpc EXCEPT ![c] =
                              CASE q.route = "create" -> "insert"
                                [] q.route = "update" -> "select"
                                [] q.route = "delete" -> "delete"]
                 /\ UNCHANGED dresp
    /\ UNCHANGED <<disasters, nextId>>
    /\ UNCHANGED <<cacheVars, reqVars, busVars>>

\* The store applies the insert of POST /disasters.  The table holds at
\* most MaxDisasters rows: beyond that the insert is answered with an error.
CreateInsert(c, o) ==
    /\ dpc[c] = "insert"
    /\ (o = "ok") => (nextId < MaxDisasters)
    /\ LET row == [id |-> NewId(nextId), owner_id |-> dq[c].user,
                   title |-> dq[c].title,
                   audit_trail |-> <<AuditEntry("create", dq[c].user)>>] IN
         IF o = "ok"
         THEN /\ disasters' = disasters \cup {row}
              /\ nextId' = nextId + 1
              /\ dq' = [dq EXCEPT ![c].ans = Single({row}, o)]
         ELSE /\ dq' = [dq EXCEPT ![c].ans = Single({}, o)]
              /\ UNCHANGED <<disasters, nextId>>
    /\ dpc' = [dpc EXCEPT ![c] = "written"]
    /\ UNCHANGED dresp
    /\ UNCHANGED <<cacheVars, reqVars, busVars>>

\* The store answers the select of PUT /disasters/:id.
UpdateSelect(c, o) ==
    /\ dpc[c] = "select"
    /\ dq' = [dq EXCEPT ![c].ans = Single(DisastersOf(disasters, dq[c].id), o)]
    /\ dpc' = [dpc EXCEPT ![c] = "selected"]
    /\ UNCHANGED <<disasters, nextId, dresp>>
    /\ UNCHANGED <<cacheVars, reqVars, busVars>>

\* Mutant: no check of the owner.
MayUpdate_anyone(existing, user) == TRUE

\* existing.owner_id !== req.user.id && req.user.role !== 'admin' answers 403.
MayUpdate(existing, user) == ~(existing.owner_id # user /\ user # "admin")

\* PUT /disasters/:id after the select: not found, not the owner, or the
\* update is sent with the audit trail that was read.
UpdateCheck(c) ==
    /\ dpc[c] = "selected"
    /\ LET ans == dq[c].ans IN
         IF ans.q # "ok"
         THEN /\ dresp' = [dresp EXCEPT ![c] =
                    ClientRespond(IF ans.code = "PGRST116" THEN 404 ELSE 500, NoRow)]
              /\ dpc' = [dpc EXCEPT ![c] = "done"]
              /\ UNCHANGED dq
         ELSE IF ~MayUpdate(ans.row, dq[c].user)
         THEN /\ dresp' = [dresp EXCEPT ![c] = ClientRespond(403, NoRow)]
              /\ dpc' = [dpc EXCEPT ![c] = "done"]
              /\ UNCHANGED dq
         ELSE /\ dq' = [dq EXCEPT ![c].existing = ans.row, ![c].ans = NoAnswer]
              /\ dpc' = [dpc EXCEPT ![c] = "update"]
              /\ UNCHANGED dresp
    /\ UNCHANGED <<disasters, nextId>>
    /\ UNCHANGED <<cacheVars, reqVars, busVars>>

\* The store applies the update: the fields of the body and the audit trail
\* the handler built from the row it had read.
UpdateWrite(c, o) ==
    /\ dpc[c] = "update"
    /\ LET old == DisastersOf(disasters, dq[c].id)
           new == {[row EXCEPT !.title = dq[c].title,
                               !.audit_trail = Append(dq[c].existing.audit_trail,
                                                      AuditEntry("update", dq[c].user))] :
                      row \in old} IN
         /\ disasters' = IF o = "ok" THEN (disasters \ old) \cup new ELSE disasters
         /\ dq' = [dq EXCEPT ![c].ans = Single(new, o)]
    /\ dpc' = [dpc EXCEPT ![c] = "written"]
    /\ UNCHANGED <<nextId, dresp>>
    /\ UNCHANGED <<cacheVars, reqVars, busVars>>

\* The store applies the delete of DELETE /disasters/:id.
DeleteWrite(c, o) ==
    /\ dpc[c] = "delete"
    /\ LET old == DisastersOf(disasters, dq[c].id) IN
         /\ disasters' = IF o = "ok" THEN disasters \ old ELSE disasters
         /\ dq' = [dq EXCEPT ![c].ans = Single(old, o)]
    /\ dpc' = [dpc EXCEPT ![c] = "written"]
    /\ UNCHANGED <<nextId, dresp>>
    /\ UNCHANGED <<cacheVars, reqVars, busVars>>

\* Mutant: the error of the write is not looked at.
WriteSucceeded_always(ans) == TRUE

\* if (error) ... throw error
WriteSucceeded(ans) == ans.q = "ok"

\* The status of the response after the write.
WriteStatus(route, ans) ==
    IF WriteSucceeded(ans) THEN (IF route = "create" THEN 201 ELSE 200)
    ELSE IF route = "delete" /\ ans.code = "PGRST116" THEN 404
    ELSE 500

\* After the write: req.io.emit('disaster_updated', { action, disaster: data })
\* and the response, or the error response.
DisasterFinish(c) ==
    /\ dpc[c] = "written"
    /\ LET ans == dq[c].ans
           route == dq[c].route IN
         /\ IF WriteSucceeded(ans)
            THEN Emit(Event("disaster_updated", Everyone, route, ans.row.id, ans.row))
            ELSE UNCHANGED <<emitted, received>>
         /\ dresp' = [dresp EXCEPT ![c] =
                        ClientRespond(WriteStatus(route, ans),
                                      IF route = "delete" THEN NoRow ELSE ans.row)]
    /\ dpc' = [dpc EXCEPT ![c] = "done"]
    /\ UNCHANGED <<disasters, nextId, dq>>
    /\ UNCHANGED <<conn, joined>>
    /\ UNCHANGED <<cacheVars, reqVars>>

DisasterOutcomes == {"ok", "error"}

\* Three requests of the disasters routes served at the same time.
NextDis ==
    \/ \E c \in Clients, q \in DisasterRequests : DisasterRequest(c, q)
    \/ \E c \in Clients, o \in DisasterOutcomes : CreateInsert(c, o)
    \/ \E c \in Clients, o \in DisasterOutcomes : UpdateSelect(c, o)
    \/ \E c \in Clients : UpdateCheck(c)
    \/ \E c \in Clients, o \in DisasterOutcomes : UpdateWrite(c, o)
    \/ \E c \in Clients, o \in DisasterOutcomes : DeleteWrite(c, o)
    \/ \E c \in Clients : DisasterFinish(c)

SpecDis == Init /\ [][NextDis]_vars

\* ------------------------------------------------------------------ claims
Done(p, op) == pc[p] = "idle" /\ call[p].op = op /\ ret[p].kind # "pending"
SetOk(c) == c.call.op = "set" /\ c.ret = Return(JsTrue, 83)
RowOfCall(c) ==
    [key |-> c.key, value |-> ToColumn(c.value),
     expires_at |-> c.at + c.ttlMinutes * 60000]

\* C1: a get whose select found an entry with expires_at strictly before the
\* time of its expiry check never returns the stored value: it goes on to the
\* eviction, and from there it returns null.
C1_NeverReturnsExpired ==
    [][\A p \in Procs :
         /\ (/\ pc[p] = "get_check" /\ pc'[p] # "get_check"
             /\ res[p].data.present /\ res[p].data.expires_at < now)
            => (pc'[p] = "get_delete" /\ ret'[p].kind = "pending")
         /\ (pc[p] = "get_delete" /\ pc'[p] # "get_delete")
            => (ret'[p].kind = "return" /\ ret'[p].val = JsNull)]_vars

\* A get found an entry, found it expired, and returned null.
C1_Witness ==
    \E p \in Procs :
        /\ Done(p, "get") /\ res[p].data.present
        /\ res[p].data.expires_at < now /\ ret[p] = Return(JsNull, 60)

\* C2: a get of the key of the successful set(key, value, ttl > 0) that the
\* same caller completed just before, with no time elapsed since that set was
\* called and the lookup answered by the store, returns exactly that value.
C2_GetAfterSet ==
    \A p \in SeqProcs :
        (/\ Done(p, "get") /\ SetOk(prev[p])
         /\ prev[p].call.ttlMinutes > 0 /\ prev[p].call.key = call[p].key
         /\ prev[p].call.at = now /\ res[p].q = "ok")
        => ret[p] = Return(prev[p].call.value, 63)

\* A get right after a successful set with a positive TTL returned a value.
C2_Witness ==
    \E p \in SeqProcs :
        /\ Done(p, "get") /\ SetOk(prev[p])
        /\ prev[p].call.ttlMinutes > 0 /\ prev[p].call.key = call[p].key
        /\ prev[p].call.at = now /\ res[p].q = "ok"
        /\ ret[p].line = 63 /\ ret[p].val = JsString("1")

\* C3: the table never holds two rows with the same key.
C3_OneEntryPerKey ==
    \A key \in Keys : Cardinality(RowsOf(cache, key)) <= 1

\* A second set on a key was applied while the first one's row was stored,
\* and the key has one row.
C3_Witness ==
    \E p \in Procs, q \in Procs :
        /\ p # q /\ Done(p, "set") /\ Done(q, "set")
        /\ ret[p].val = JsTrue /\ ret[q].val = JsTrue
        /\ call[p].key = call[q].key /\ call[p].value # call[q].value
        /\ Cardinality(RowsOf(cache, call[p].key)) = 1

\* C4: after a successful set on a key that the caller's previous successful
\* set had written, the key's row holds the second value and the second
\* call's time plus its TTL; a get that follows a successful set before its
\* expiry (lookup answered) returns that set's value.
C4_Overwrite ==
    \A p \in SeqProcs :
        /\ (/\ Done(p, "set") /\ ret[p].val = JsTrue /\ SetOk(prev[p])
            /\ prev[p].call.key = call[p].key)
           => RowsOf(cache, call[p].key) = {RowOfCall(call[p])}
        /\ (/\ Done(p, "get") /\ SetOk(prev[p]) /\ prev[p].call.key = call[p].key
            /\ now < RowOfCall(prev[p].call).expires_at /\ res[p].q = "ok")
           => ret[p] = Return(prev[p].call.value, 63)

\* A set replaced the row of an earlier set with another value and an
\* earlier expiry.
C4_Witness ==
    \E p \in SeqProcs :
        /\ Done(p, "set") /\ ret[p].val = JsTrue /\ SetOk(prev[p])
        /\ prev[p].call.key = call[p].key
        /\ prev[p].call.value # call[p].value
        /\ call[p].at > prev[p].call.at
        /\ call[p].expiresAt < prev[p].call.expiresAt
        /\ RowsOf(cache, call[p].key) = {RowOfCall(call[p])}

\* C5: with one caller and a store that answers, a get that finds an entry
\* whose expires_at is strictly before the time of the check deletes the
\* key's entry and returns null: no row of the key is left when it returns.
C5_EvictsExpired ==
    [][\A p \in SeqProcs :
         /\ (/\ pc[p] = "get_check" /\ pc'[p] # "get_check"
             /\ res[p].data.present /\ res[p].data.expires_at < now)
            => pc'[p] = "get_delete"
         /\ (pc[p] = "get_delete" /\ pc'[p] # "get_delete" /\ outcome'[p] = "ok")
            => (/\ RowsOf(cache', call[p].key) = {}
                /\ RowsOf(cache, call[p].key) # {}
                /\ ret'[p] = Return(JsNull, 60))]_vars

\* A get returned null from the eviction and the key has no row.
C5_Witness ==
    \E p \in SeqProcs :
        /\ Done(p, "get") /\ ret[p] = Return(JsNull, 60) /\ outcome[p] = "ok"
        /\ res[p].data.present /\ RowsOf(cache, call[p].key) = {}

\* C6: after a successful set(k, v, 1), the caller's next call being get(k):
\* with no time elapsed (lookup answered) it returns v; called 61 seconds or
\* more after the set it returns null.
C6_ExpiryBoundary ==
    \A p \in SeqProcs :
        (/\ Done(p, "get") /\ SetOk(prev[p])
         /\ prev[p].call.ttlMinutes = 1 /\ prev[p].call.key = call[p].key)
        => /\ (now = prev[p].call.at /\ res[p].q = "ok")
                => ret[p] = Return(prev[p].call.value, 63)
           /\ (call[p].at >= prev[p].call.at + 61000)
                => (ret[p].kind = "return" /\ ret[p].val = JsNull)

\* A get called 61 seconds after set(k, v, 1) found the entry and returned null.
C6_Witness ==
    \E p \in SeqProcs :
        /\ Done(p, "get") /\ SetOk(prev[p])
        /\ prev[p].call.ttlMinutes = 1 /\ prev[p].call.key = call[p].key
        /\ call[p].at = prev[p].call.at + 61000
        /\ res[p].data.present /\ ret[p] = Return(JsNull, 60)

\* C7: a set with an empty key or a non-positive TTL is reported as a failure
\* and writes nothing: it does not return true, and no row has the key "".
C7_RejectsInvalidArguments ==
    /\ \A p \in Procs :
          (Done(p, "set") /\ (call[p].key = "" \/ call[p].ttlMinutes <= 0))
          => ret[p].val # JsTrue
    /\ RowsOf(cache, "") = {}

\* C8: every row that appears in the table is, value and expiry together, the
\* row of one single set call being applied in that step; a set that the store
\* applied leaves the key with exactly its own row; and what a reader's select
\* returns is the value and expiry of one stored row.
C8_AtomicLastWriterWins ==
    [][/\ \A r \in cache' \ cache :
            \E p \in Procs :
                /\ pc[p] = "set_upsert" /\ pc'[p] = "idle"
                /\ r = RowOfCall(call[p])
       /\ \A p \in Procs :
            (pc[p] = "set_upsert" /\ pc'[p] = "idle" /\ ret'[p].val = JsTrue)
            => RowsOf(cache', call[p].key) = {RowOfCall(call[p])}
       /\ \A p \in Procs :
            (pc[p] = "idle" /\ pc'[p] = "get_check" /\ res'[p].data.present)
            => \E r \in cache :
                  /\ r.key = call'[p].key
                  /\ res'[p].data.value = JSONParse(r.value)
                  /\ res'[p].data.expires_at = r.expires_at]_vars

\* Two sets on one key overlapped: p was called first, q was called later
\* and applied, and p, applied last, is the one stored.
C8_Witness ==
    \E p \in Procs, q \in Procs :
        /\ p # q /\ Done(p, "set") /\ Done(q, "set")
        /\ ret[p].val = JsTrue /\ ret[q].val = JsTrue
        /\ call[p].key = call[q].key /\ call[p].value # call[q].value
        /\ call[p].at < call[q].at
        /\ RowsOf(cache, call[p].key) = {RowOfCall(call[p])}

\* C9: get never ends with an exception; when its lookup returned an error,
\* returned no row, or threw, it returns null.
C9_GetAbsorbsFailure ==
    \A p \in Procs :
        Done(p, "get")
        => /\ ret[p].kind = "return"
           /\ (res[p].q # "ok" \/ res[p].error \/ ~res[p].data.present)
                => ret[p].val = JsNull

\* A get whose select threw returned null.
C9_Witness ==
    \E p \in Procs :
        Done(p, "get") /\ res[p].q = "throw" /\ ret[p] = Return(JsNull, 66)

\* C10: set and delete never end with an exception: they return true when
\* their query reported no error, and false otherwise.
C10_WriteReportsFailure ==
    \A p \in Procs :
        (Done(p, "set") \/ Done(p, "delete"))
        => /\ ret[p].kind = "return"
           /\ ret[p].val = (IF outcome[p] = "ok" THEN JsTrue ELSE JsFalse)

\* A set whose upsert was answered with an error returned false, and a
\* delete whose query threw returned false.
C10_Witness ==
    \E p \in Procs :
        /\ Done(p, "delete") /\ outcome[p] = "throw" /\ ret[p].val = JsFalse
        /\ prev[p].call.op = "set" /\ prev[p].ret = Return(JsFalse, 86)

\* C11: a delete the store answers returns true and leaves no row of the key,
\* and when the key had no row it leaves the table as it was; a get that
\* follows a successful delete of its key returns null.
C11_Delete ==
    [][\A p \in SeqProcs :
         /\ (Done(p, "delete")' /\ outcome'[p] = "ok")
            => (RowsOf(cache', call'[p].key) = {} /\ ret'[p] = Return(JsTrue, 98))
         /\ (/\ pc[p] = "idle" /\ pc'[p] = "idle" /\ call'[p].op = "delete"
             /\ outcome'[p] = "ok" /\ RowsOf(cache, call'[p].key) = {})
            => (cache' = cache /\ ret'[p] = Return(JsTrue, 98))
         /\ (/\ Done(p, "get")' /\ prev'[p].call.op = "delete"
             /\ prev'[p].ret.val = JsTrue /\ prev'[p].call.key = call'[p].key)
            => (ret'[p].kind = "return" /\ ret'[p].val = JsNull)]_vars

\* A delete that followed a successful set of its key removed the key's row.
C11_Witness ==
    \E p \in SeqProcs :
        /\ Done(p, "delete") /\ ret[p] = Return(JsTrue, 98) /\ SetOk(prev[p])
        /\ prev[p].call.key = call[p].key /\ call[p].at < prev[p].call.expiresAt
        /\ RowsOf(cache, call[p].key) = {}

\* C12: a get of a key that has no row finds no data, returns null at line 55
\* and leaves the table as it was.
C12_GetOfAbsentKey ==
    [][\A p \in SeqProcs :
         /\ (/\ pc[p] = "idle" /\ pc'[p] = "get_check"
             /\ RowsOf(cache, call'[p].key) = {})
            => (~res'[p].data.present /\ cache' = cache)
         /\ (pc[p] = "get_check" /\ pc'[p] # "get_check" /\ ~res[p].data.present)
            => (/\ pc'[p] = "idle" /\ ret'[p].kind = "return"
                /\ ret'[p].val = JsNull /\ cache' = cache)]_vars

\* The first call ever made is a get, answered by the store: it returned
\* null and the table is empty.
C12_Witness ==
    \E p \in SeqProcs :
        /\ Done(p, "get") /\ prev[p].call.op = "none" /\ res[p].q = "ok"
        /\ ret[p] = Return(JsNull, 55) /\ cache = {}

C14_EvictionBestEffort ==
    [][\A p \in SeqProcs :
         /\ (pc[p] = "get_delete" /\ pc'[p] # "get_delete" /\ outcome'[p] # "ok")
            => (ret'[p] = Return(JsNull, 60) /\ cache' = cache)
         /\ (/\ Done(p, "get")' /\ prev'[p].call.op = "get"
             /\ prev'[p].ret.line = 60 /\ prev'[p].call.key = call'[p].key)
            => (ret'[p].kind = "return" /\ ret'[p].val = JsNull)]_vars

\* Two gets in a row found the key's entry expired, both evictions failed and
\* the stale row is still stored.
C14_Witness ==
    \E p \in SeqProcs :
        /\ Done(p, "get") /\ ret[p] = Return(JsNull, 60) /\ outcome[p] # "ok"
        /\ prev[p].call.op = "get" /\ prev[p].ret = Return(JsNull, 60)
        /\ prev[p].call.key = call[p].key
        /\ \E r \in RowsOf(cache, call[p].key) : r.expires_at < now

\* C15: set has no TTL of its own: a set call that stores an entry was given
\* its TTL as an argument.
C15_NoDefaultTtl ==
    \A p \in Procs :
        (Done(p, "set") /\ ret[p].val = JsTrue) => call[p].argc >= 3

\* C16: the passage of time changes no row, and the rows of a key change only
\* in a step of a get, set or delete on that key.
C16_LazyExpiry ==
    [][/\ (now' # now) => (cache' = cache)
       /\ \A key \in Keys :
            (RowsOf(cache', key) # RowsOf(cache, key))
            => \E p \in Procs :
                  /\ call'[p].key = key
                  /\ \/ pc[p] = "get_delete" /\ pc'[p] = "idle"
                     \/ pc[p] = "set_upsert" /\ pc'[p] = "idle"
                     \/ pc[p] = "idle" /\ pc'[p] = "idle" /\ call'[p].op = "delete"]_vars

\* Time has passed the expiry of a stored row and the row is still stored.
C16_Witness ==
    /\ \E r \in cache : r.expires_at + 61000 <= now
    /\ \A p \in Procs : pc[p] = "idle"

\* The lookups of the handlers.
Stages == {"extract", "geocode", "official", "social", "verify"}

\* The handler of r has gone through event ev of its lookup s.
Did(r, s, ev) == <<s, ev>> \in trace[r]

\* The cache key request r uses for its lookup s.
KeyAt(r, s) == CacheKey([rq[r] EXCEPT !.stage = s])

\* Every request so far arrived within one TTL window of lookup s.
WithinTtl(s) == now < TtlMinutes(s) * 60000

\* C17 as stated: requests for the same key within one TTL window, in any
\* sequence or interleaving, with the storage answering every query and the
\* external service succeeding, invoke the external service at most once.
C17_AtMostOnce ==
    \A r1, r2 \in Procs, s \in Stages :
        ~ /\ r1 # r2
          /\ WithinTtl(s)
          /\ Did(r1, s, "external") /\ Did(r2, s, "external")
          /\ Did(r1, s, "stored") /\ Did(r2, s, "stored")
          /\ ~Did(r1, s, "lookup_failed") /\ ~Did(r2, s, "lookup_failed")
          /\ Did(r1, s, "succeeded") /\ Did(r2, s, "succeeded")
          /\ KeyAt(r1, s) = KeyAt(r2, s)

\* A request that found a live truthy entry within the TTL window took it for
\* a hit, did not invoke the external service, and answers with that value.
FoundIsReturned ==
    \A r \in Procs, s \in Stages :
        (Did(r, s, "found") /\ WithinTtl(s))
        => /\ Did(r, s, "hit")
           /\ ~Did(r, s, "external")
           /\ (rpc[r] = "done" /\ rq[r].stage = s)
              => resp[r] = OkResponse(rq[r], res[r].data.value)

\* C17 amended: a lookup answered by the store after an earlier set of the
\* same key has completed with a truthy value finds that entry, and a request
\* that finds a live truthy entry within the TTL window returns it without
\* invoking the external service; so requests that do not overlap invoke the
\* external service at most once.
C17_Memoized ==
    [][/\ \A r \in Procs :
            (/\ rpc[r] = "get" /\ rpc'[r] = "lookup"
             /\ outcome'[r] = "ok"
             /\ \E row \in RowsOf(cache, call'[r].key) :
                    row.value # SqlNull /\ Truthy(JSONParse(row.value)))
            => /\ res'[r].data.present
               /\ \E row \in RowsOf(cache, call'[r].key) :
                    /\ res'[r].data.value = JSONParse(row.value)
                    /\ res'[r].data.expires_at = row.expires_at
       /\ FoundIsReturned']_vars

\* Two requests for one key, one after the other: the first invoked the
\* external service and stored its result, the second answered from the cache.
C17_Witness ==
    \E r1, r2 \in Procs, s \in Stages :
        /\ r1 # r2
        /\ Did(r1, s, "external") /\ Did(r1, s, "stored")
        /\ Did(r2, s, "found") /\ Did(r2, s, "hit") /\ ~Did(r2, s, "external")
        /\ KeyAt(r1, s) = KeyAt(r2, s)
        /\ rpc[r1] = "done" /\ rpc[r2] = "done"
        /\ resp[r2].status = 200 /\ resp[r2].body = resp[r1].body
        /\ WithinTtl(s)

\* Request r has been answered.
Answered(r) == rpc[r] = "done"

\* C18: when CacheManager.set fails, the request still answers with the fresh
\* external result, the same response as a request whose set succeeded; a
\* failed set of the extracted location does not stop the geocoding.
C18_CachingAdvisory ==
    \A r \in Procs :
        /\ (Answered(r) /\ Did(r, rq[r].stage, "store_failed"))
           => /\ resp[r].status = 200
              /\ resp[r].body = rq[r].ext
              /\ \A r2 \in Procs :
                    (/\ Answered(r2) /\ Did(r2, rq[r].stage, "stored")
                     /\ rq[r2].stage = rq[r].stage
                     /\ rq[r2].ext = rq[r].ext /\ rq[r2].loc = rq[r].loc)
                    => resp[r2] = resp[r]
        /\ Did(r, "extract", "store_failed")
           => /\ rq[r].stage = "geocode"
              /\ resp[r].status # 500
              /\ (Answered(r) /\ resp[r].status = 200)
                 => resp[r].location_name = rq[r].loc

\* Two requests with the same fresh result, one whose set failed and one whose
\* set succeeded, both answered with it.
C18_Witness ==
    \E r, r2 \in Procs :
        /\ Answered(r) /\ Answered(r2)
        /\ rq[r].stage = rq[r2].stage
        /\ Did(r, rq[r].stage, "store_failed") /\ ret[r] = Return(JsFalse, 86)
        /\ Did(r2, rq[r].stage, "stored")
        /\ rq[r].ext = rq[r2].ext
        /\ resp[r].status = 200 /\ resp[r] = resp[r2]
        /\ resp[r].body = rq[r].ext /\ Truthy(resp[r].body)

\* A request whose lookup was absent and whose external call then succeeded
\* is answered 200 with the external result.
AbsentIsServed ==
    \A r \in Procs :
        (/\ Answered(r)
         /\ Did(r, rq[r].stage, "external") /\ Did(r, rq[r].stage, "succeeded"))
        => /\ resp[r].status = 200
           /\ resp[r].body = rq[r].ext
           /\ Truthy(resp[r].body)

\* C19: whenever get returns null (no entry, an expired entry, a failed
\* query) the handler goes on to the external call without answering, and
\* the request is then answered with the external result.
C19_FallsBack ==
    [][/\ \A r \in Procs :
            (rpc[r] = "lookup" /\ rpc'[r] # "lookup" /\ ret[r].val = JsNull)
            => /\ rpc'[r] = "external"
               /\ resp'[r] = resp[r]
               /\ Did(r, rq[r].stage, "external")'
       /\ AbsentIsServed']_vars

\* One request answered after a failed lookup, another after the eviction of
\* an expired entry: both with the result of the external call.
C19_Witness ==
    \E r1, r2 \in Procs :
        /\ r1 # r2
        /\ Answered(r1) /\ Answered(r2)
        /\ Did(r1, rq[r1].stage, "lookup_failed") /\ Did(r1, rq[r1].stage, "external")
        /\ prev[r2].call.op = "get" /\ prev[r2].ret = Return(JsNull, 60)
        /\ Did(r2, rq[r2].stage, "external")
        /\ resp[r1].status = 200 /\ resp[r1].body = rq[r1].ext
        /\ resp[r2].status = 200 /\ resp[r2].body = rq[r2].ext

\* External outcomes that are not results: no coordinates / a thrown call
\* (null), and the "NONE" of the extraction.
NotAResult == {JsNull, NoLocation}

\* No stored value is a non-result or the fallback verification, and a request
\* answered with an error or with the fallback never called set for it.
OnlyResultsStored ==
    /\ \A row \in cache :
          row.value \notin {SqlNull, ToColumn(NoLocation), ToColumn(Fallback)}
    /\ \A r \in Procs :
          (Answered(r) /\ (resp[r].status # 200 \/ resp[r].body = Fallback))
          => /\ ~Did(r, rq[r].stage, "stored")
             /\ ~Did(r, rq[r].stage, "store_failed")

\* C20: an external call that yields no result (no provider found
\* coordinates, the extraction said "NONE" or threw, the AI call of the image
\* verification threw) ends the request without calling set and leaves the
\* cache as it is; every row that enters the cache is the external result of
\* the request that stores it.
C20_OnlySuccessfulResultsCached ==
    [][/\ \A r \in Procs :
            (rpc[r] = "external" /\ rpc'[r] # "external" /\ rq'[r].ext \in NotAResult)
            => /\ rpc'[r] = "done"
               /\ call'[r] = call[r] /\ pc'[r] = "idle"
               /\ cache' = cache
       /\ \A row \in cache' \ cache :
            \E r \in Procs :
                /\ rpc[r] = "store"
                /\ row.key = CacheKey(rq[r])
                /\ row.value = ToColumn(rq[r].ext)
                /\ rq[r].ext \notin NotAResult \cup {Fallback}
       /\ OnlyResultsStored']_vars

\* A geocoding request answered 404 after every provider found nothing and
\* an image verification answered with the fallback: neither left an entry.
C20_Witness ==
    \E r1, r2 \in Procs :
        /\ Answered(r1) /\ Did(r1, "geocode", "external") /\ resp[r1].status = 404
        /\ RowsOf(cache, KeyAt(r1, "geocode")) = {}
        /\ call[r1].op = "get"
        /\ Answered(r2) /\ Did(r2, "verify", "external") /\ resp[r2].body = Fallback
        /\ RowsOf(cache, KeyAt(r2, "verify")) = {}
        /\ call[r2].op = "get"

\* The TTLs the callers are said to use, in minutes.
StatedTtlMinutes(s) ==
    CASE s = "geocode" -> 1440
      [] s = "extract" -> 60
      [] s = "social" -> 15
      [] s = "official" -> 30

\* The handler of w has lookup s.
Applicable(w, s) ==
    CASE s = "extract" -> rq[w].route = "geocoding" /\ rq[w].fromText
      [] s = "geocode" -> rq[w].route = "geocoding" /\ rq[w].loc.t = "string"
      [] OTHER -> rq[w].route = s

\* The last cache call of the handler of w is its set for lookup s.
WroteFor(w, s) == HasWritten(w) /\ Applicable(w, s) /\ call[w].key = KeyAt(w, s)

\* C21: a caller's set carries the TTL stated for its data (coordinates 1440
\* minutes, extracted location 60, social media 15, official updates 30), and
\* a get of the stored entry returns it up to that many minutes after the set
\* and no longer.
C21_StatedTtls ==
    [][\A s \in {"geocode", "extract", "social", "official"} :
        /\ \A w \in Procs :
            (pc[w] = "set_upsert" /\ pc'[w] = "idle" /\ rq[w].stage = s)
            => /\ call[w].ttlMinutes = StatedTtlMinutes(s)
               /\ call[w].expiresAt = call[w].at + StatedTtlMinutes(s) * 60000
               /\ ret'[w].val = JsTrue
                  => \E row \in RowsOf(cache', call[w].key) :
                        row.expires_at = call[w].at + StatedTtlMinutes(s) * 60000
        /\ \A w, p \in Procs :
            (/\ WroteFor(w, s) /\ ret[w].val = JsTrue
             /\ pc[p] = "get_check" /\ pc'[p] # "get_check"
             /\ call[p].key = call[w].key)
            => IF now <= call[w].at + StatedTtlMinutes(s) * 60000
               THEN ret'[p] = Return(call[w].value, 63)
               ELSE ret'[p].val = JsNull /\ ret'[p].line # 63]_vars

\* Geocoded coordinates read back exactly 1440 minutes after they were stored,
\* and found expired one millisecond later.
C21_Witness ==
    /\ WroteFor("p1", "geocode") /\ ret["p1"].val = JsTrue
    /\ prev["p2"].call.op = "get" /\ prev["p2"].call.key = call["p1"].key
    /\ prev["p2"].call.at = call["p1"].at + 1440 * 60000
    /\ prev["p2"].ret = Return(call["p1"].value, 63)
    /\ Done("p2", "get") /\ call["p2"].key = call["p1"].key
    /\ call["p2"].at = call["p1"].at + 1440 * 60000 + 1
    /\ ret["p2"] = Return(JsNull, 60)

\* The rows of every key but key.
OtherRows(rows, key) == {r \in rows : r.key # key}

\* C22: a step of a get, set or delete on a key leaves the rows of every
\* other key as they were.
C22_KeysIndependent ==
    [][\A p \in Procs :
        (call'[p] # call[p] \/ pc'[p] # pc[p] \/ ret'[p] # ret[p])
        => OtherRows(cache', call'[p].key) = OtherRows(cache, call'[p].key)]_vars

\* Key "k" holds an entry while the empty key has been set and then deleted.
C22_Witness ==
    /\ RowsOf(cache, "k") # {}
    /\ RowsOf(cache, "") = {}
    /\ prev["p1"].call.op = "set" /\ prev["p1"].call.key = ""
    /\ prev["p1"].ret = Return(JsTrue, 83)
    /\ Done("p1", "delete") /\ call["p1"].key = ""
    /\ ret["p1"] = Return(JsTrue, 98)

\* The events of a room: resources_updated and social_media_updated.
RoomEvents == {"resources_updated", "social_media_updated"}

\* C23: a resources_updated or social_media_updated event for disaster D is
\* delivered, at the step that emits it, only to sockets that are connected
\* and have joined room disaster_D; a socket that never joined the room never
\* holds such an event.
C23_RoomScoped ==
    [][\A s \in Sockets :
        \A ev \in received'[s] \ received[s] :
            ev.name \in RoomEvents
            => /\ ev.room = Room(ev.disaster_id)
               /\ conn[s]
               /\ Room(ev.disaster_id) \in joined[s]
               /\ Len(emitted') = Len(emitted) + 1
               /\ emitted'[Len(emitted')] = ev]_vars

\* Socket s1 joined room disaster_d and received an event for d; socket s2 is
\* connected, in another room, and received nothing for d.
C23_Witness ==
    /\ conn["s1"] /\ Room("d") \in joined["s1"]
    /\ conn["s2"] /\ joined["s2"] = {Room("e")}
    /\ \E ev \in received["s1"] :
          ev.name = "social_media_updated" /\ ev.disaster_id = "d"
    /\ \E ev \in received["s1"] :
          ev.name = "resources_updated" /\ ev.disaster_id = "d"
    /\ \A ev \in received["s2"] : ev.disaster_id # "d"
    /\ Len(emitted) = 2

\* The update requests whose write on disaster id the store has applied.
UpdatesApplied(id) ==
    {c \in Clients :
        /\ dq[c].route = "update" /\ dq[c].id = id
        /\ \/ dpc[c] = "written" /\ dq[c].ans.q = "ok"
           \/ dpc[c] = "done" /\ dresp[c].status = 200}

\* C27: the audit trail of a disaster starts with its one 'create' entry and
\* holds one 'update' entry for each successful update, n + 1 entries after n
\* updates, however the PUT requests interleave.
C27_AuditTrailComplete ==
    \A row \in disasters :
        /\ Len(row.audit_trail) = Cardinality(UpdatesApplied(row.id)) + 1
        /\ row.audit_trail[1].action = "create"
        /\ \A i \in 2..Len(row.audit_trail) : row.audit_trail[i].action = "update"

\* The levels of the roles, and the level each route asks for.
Level(role) ==
    CASE role = "viewer" -> 1 [] role = "contributor" -> 2 [] role = "admin" -> 3
NeededLevel(route) == IF route = "delete" THEN Level("admin") ELSE Level("contributor")

\* A viewer's request, and a delete by anyone but the admin, are over as soon
\* as they arrive, with 403; no row is owned or was changed by a viewer.
GateKept ==
    /\ \A c \in Clients :
          (/\ dq[c].route \in {"create", "update", "delete"}
           /\ Level(dq[c].user) < NeededLevel(dq[c].route))
          => dpc[c] = "done" /\ dresp[c].status = 403
    /\ \A row \in disasters :
          /\ row.owner_id # "viewer"
          /\ \A i \in 1..Len(row.audit_trail) : row.audit_trail[i].user_id # "viewer"

\* C28: a request whose user's level is below the level of the route's
\* requireRole ends on arrival with 403, with the table and the events as they
\* were; a request at or above that level goes on into the handler.
C28_RoleGate ==
    [][/\ \A c \in Clients :
            (dpc[c] = "new" /\ dpc'[c] # "new"
             /\ dq'[c].route \in {"create", "update", "delete"})
            => IF Level(dq'[c].user) < NeededLevel(dq'[c].route)
               THEN /\ dpc'[c] = "done" /\ dresp'[c].status = 403
                    /\ disasters' = disasters /\ emitted' = emitted
               ELSE dresp'[c].status # 403
       /\ GateKept']_vars

\* A viewer's create and a contributor's delete were refused, while a
\* contributor's create went through.
C28_Witness ==
    \E c1, c2, c3 \in Clients :
        /\ dq[c1].route = "create" /\ dq[c1].user = "viewer"
        /\ dpc[c1] = "done" /\ dresp[c1].status = 403
        /\ dq[c2].route = "delete" /\ dq[c2].user = "contributor"
        /\ dpc[c2] = "done" /\ dresp[c2].status = 403
        /\ dq[c3].route = "create" /\ dq[c3].user = "contributor"
        /\ dpc[c3] = "done" /\ dresp[c3].status = 201
        /\ Len(emitted) = 1

\* The requester is the owner of the row or the admin.
OwnerOrAdmin(row, user) == row.owner_id = user \/ user = "admin"

\* C29: PUT /disasters/:id goes on to its update only when the requester is
\* the owner of the row it read or the admin, and otherwise answers 403 with
\* the table and the events as they were; a row is changed only by the update
\* of its owner or of the admin.
C29_OwnershipCheck ==
    [][\A c \in Clients :
        /\ (dq[c].route = "update" /\ dpc[c] = "selected" /\ dpc'[c] # "selected"
            /\ dq[c].ans.q = "ok")
           => IF OwnerOrAdmin(dq[c].ans.row, dq[c].user)
              THEN dpc'[c] = "update" /\ dresp'[c] = dresp[c]
              ELSE /\ dpc'[c] = "done" /\ dresp'[c].status = 403
                   /\ disasters' = disasters /\ emitted' = emitted
        /\ (dq[c].route = "update" /\ dpc'[c] # dpc[c] /\ disasters' # disasters)
           => /\ dpc[c] = "update"
              /\ \A row \in disasters \ disasters' :
                    row.id = dq[c].id /\ OwnerOrAdmin(row, dq[c].user)]_vars

\* The contributor's update of the admin's disaster was refused and the
\* admin's own update went through: the row carries the admin's update only.
C29_Witness ==
    \E c1, c2 \in Clients :
        /\ dq[c1].route = "update" /\ dq[c1].user = "contributor"
        /\ dpc[c1] = "done" /\ dresp[c1].status = 403
        /\ dq[c2].route = "update" /\ dq[c2].user = "admin"
        /\ dpc[c2] = "done" /\ dresp[c2].status = 200
        /\ \E row \in disasters :
              /\ row.id = dq[c1].id /\ row.id = dq[c2].id
              /\ row.owner_id = "admin"
              /\ row.audit_trail =
                    <<AuditEntry("create", "admin"), AuditEntry("update", "admin")>>
        /\ Len(emitted) = 2

\* The requests that were answered with success.
Succeeded == {c \in Clients : dpc[c] = "done" /\ dresp[c].status \in {200, 201}}

\* The disaster_updated event of request c, whose write was answered with ans.
UpdatedEvent(c, ans) ==
    Event("disaster_updated", Everyone, dq[c].route, ans.row.id, ans.row)

\* C30: a request of the disasters routes emits as it is answered and only
\* then: the request whose write the store had answered without error emits
\* one disaster_updated event with its action and the row the store returned,
\* and is answered 200 or 201; any other answer leaves the events as they
\* were.  There are as many events as requests answered with success.
C30_OneEventPerWrite ==
    [][/\ \A c \in Clients :
            (dpc'[c] = "done" /\ dpc[c] # "done")
            => IF dpc[c] = "written" /\ dq[c].ans.q = "ok"
               THEN /\ emitted' = Append(emitted, UpdatedEvent(c, dq[c].ans))
                    /\ dresp'[c].status \in {200, 201}
                    /\ dq[c].ans.row # NoRow
               ELSE /\ emitted' = emitted
                    /\ dresp'[c].status \notin {200, 201}
       /\ (emitted' # emitted) => \E c \in Clients : dpc'[c] = "done" /\ dpc[c] # "done"
       /\ Len(emitted') = Cardinality(Succeeded')]_vars

\* A disaster was created, updated and deleted, each request answered with
\* success, and the three events carry the three actions in that order.
C30_Witness ==
    /\ Cardinality(Succeeded) = 3
    /\ Len(emitted) = 3
    /\ <<emitted[1].action, emitted[2].action, emitted[3].action>>
          = <<"create", "update", "delete">>
    /\ emitted[2].disaster.audit_trail
          = <<AuditEntry("create", "contributor"), AuditEntry("update", "contributor")>>
    /\ disasters = {}

\* C24: the eviction of a get removes only an entry that has expired: the
\* rows its delete takes out of the table are rows whose expires_at is before
\* the current time, so an entry a concurrent set has just written stays.
C24_EvictsOnlyExpired ==
    [][\A p \in Procs :
        (pc[p] = "get_delete" /\ pc'[p] = "idle")
        => \A r \in cache \ cache' : Expired(r.expires_at, now)]_vars

\* C25: a get whose select the store answered returns the stored value
\* exactly when an entry was found and its expires_at is not before the time
\* of the check; an entry whose expires_at is that very time is returned, and
\* the get ends there with the table as it was.
C25_StrictExpiry ==
    [][\A p \in SeqProcs :
        (/\ pc[p] = "get_check" /\ pc'[p] # "get_check"
         /\ res[p].q = "ok" /\ ~res[p].error)
        => /\ (ret'[p] = Return(res[p].data.value, 63))
                <=> (res[p].data.present /\ res[p].data.expires_at >= now)
           /\ (res[p].data.present /\ res[p].data.expires_at = now)
                => /\ ret'[p] = Return(res[p].data.value, 63)
                   /\ pc'[p] = "idle"
                   /\ cache' = cache]_vars

\* A get made at the very instant its entry expires, a minute after the set,
\* returned the value and the row is still there.
C25_Witness ==
    \E p \in SeqProcs :
        /\ Done(p, "get") /\ SetOk(prev[p])
        /\ prev[p].call.key = call[p].key /\ prev[p].call.ttlMinutes = 1
        /\ call[p].at = prev[p].call.at + 60000 /\ now = call[p].at
        /\ res[p].data.expires_at = now
        /\ ret[p] = Return(prev[p].call.value, 63)
        /\ RowsOf(cache, call[p].key) = {RowOfCall(prev[p].call)}

\* C26: no step of a get changes the table but the eviction of an entry it
\* found expired; a get that returns the value it found leaves the key's row
\* with the expires_at it read.
C26_NoSlidingExpiration ==
    [][\A p \in SeqProcs :
        /\ (call'[p].op = "get" /\ pc'[p] # pc[p] /\ cache' # cache)
           => /\ pc[p] = "get_delete"
              /\ res[p].data.present /\ res[p].data.expires_at < now
        /\ (pc[p] = "get_check" /\ pc'[p] = "idle" /\ ret'[p].line = 63)
           => /\ cache' = cache
              /\ \A r \in RowsOf(cache', call[p].key) :
                    /\ r.expires_at = res[p].data.expires_at
                    /\ JSONParse(r.value) = res[p].data.value]_vars

\* The entry was read twice, a minute or more apart: both gets returned the
\* value and the row expires when the second get read that it would.
C26_Witness ==
    \E p \in SeqProcs :
        /\ Done(p, "get") /\ ret[p].line = 63
        /\ prev[p].call.op = "get" /\ prev[p].call.key = call[p].key
        /\ prev[p].ret.line = 63 /\ prev[p].ret.val = ret[p].val
        /\ call[p].at >= prev[p].call.at + 60000
        /\ \E r \in RowsOf(cache, call[p].key) :
              r.expires_at = res[p].data.expires_at /\ r.expires_at > now

====
